---- MODULE Spec2Model ----
(***************************************************************************)
(* A model of webidl-audit.py: the audit of a git log for patches that     *)
(* were not reviewed by a WebIDL peer.  The script is one module-level     *)
(* pipeline of three loops (classification, reviewer check, author check)  *)
(* followed by the report.  Strings are TLA+ strings, a character is a     *)
(* string of length one, and every regular expression of the script is an  *)
(* operator that matches character by character.                           *)
(***************************************************************************)
EXTENDS Integers, Sequences, FiniteSets, TLC

VARIABLES
    file,               \* the lines of the log file, as read (input)
    pc,                 \* "classify", "review", "author" or "exited"
    lineNo,             \* number of lines of the file consumed by the first loop
    bugIdx,             \* number of entries of bugs consumed by the second loop
    missIdx,            \* number of entries of bugsMissingReview consumed by the third loop
    bugs,               \* list of (revision, bugno, line)
    bugsMissingReview,  \* list of (revision, bugno, line)
    reviewers,          \* last value returned by parseReviewers ("" before the first call)
    numReverts, numOldUnrecognized,
    numHasPeer, numOldMissing, numOldReviewerless, numOldUnparsableReviewers,
    numPeerAuthored, numKnownMissing, numUnknownMissing,
    dateCalls,          \* the "git show --format=%cI" calls made, with their answers
    authorCalls,        \* the "git show --format=%ce" calls made, with their answers
    stderr,             \* what was written to the error stream
    stdout,             \* what was printed
    exitStatus          \* the process exit status, once pc = "exited"

counters == <<numReverts, numOldUnrecognized, numHasPeer, numOldMissing,
              numOldReviewerless, numOldUnparsableReviewers, numPeerAuthored,
              numKnownMissing, numUnknownMissing>>

vars == <<file, pc, lineNo, bugIdx, missIdx, bugs, bugsMissingReview, reviewers,
          counters, dateCalls, authorCalls, stderr, stdout, exitStatus>>

(***************************************************************************)
(* Bounds of the model.                                                    *)
(***************************************************************************)
MaxLines == 2

(***************************************************************************)
(* Characters and character classes of the regular expressions.            *)
(***************************************************************************)
\* The characters i..j of s, as many as there are (a Python slice s[i-1:j]).
Slice(s, i, j) ==
    LET a == IF i < 1 THEN 1 ELSE i
        b == IF j > Len(s) THEN Len(s) ELSE j
    IN  IF a > b THEN "" ELSE SubSeq(s, a, b)

\* The character at position i of s, "" when there is none.
Char(s, i) == Slice(s, i, i)

LowerChars == {"a","b","c","d","e","f","g","h","i","j","k","l","m",
               "n","o","p","q","r","s","t","u","v","w","x","y","z"}

UpperChars == {"A","B","C","D","E","F","G","H","I","J","K","L","M",
               "N","O","P","Q","R","S","T","U","V","W","X","Y","Z"}

DigitChars == {"0","1","2","3","4","5","6","7","8","9"}

\* [a-z0-9]
RevisionChars == LowerChars \cup DigitChars

\* [a-zA-Z0-9\-\.\_]
ReviewerChars == LowerChars \cup UpperChars \cup DigitChars \cup {"-", ".", "_"}

\* \s, and what str.strip() removes
WhitespaceChars == {" ", "\t", "\n", "\r", "\f"}

Max(S) == CHOOSE x \in S : \A y \in S : y <= x

\* The end of the longest run of characters of class C that starts at
\* position i of s (i - 1 when the character at i is not in C): what a greedy
\* C* consumes.
RunEnd(s, i, C) ==
    Max({e \in (i - 1)..Len(s) : \A x \in i..e : Char(s, x) \in C})

\* The literal lit occurs in s at position i.
StartsWith(s, i, lit) == Slice(s, i, i + Len(lit) - 1) = lit

\* s matches ^pat$ where pat holds no operator but ".", which matches any
\* one character.
RegexLiteralMatch(pat, s) ==
    /\ Len(s) = Len(pat)
    /\ \A i \in 1..Len(pat) : Char(pat, i) = "." \/ Char(pat, i) = Char(s, i)

\* str.lstrip / str.rstrip / str.strip with the set of characters C
LStrip(s, C) ==
    LET first == RunEnd(s, 1, C) + 1
    IN  Slice(s, first, Len(s))

RStrip(s, C) ==
    LET keep == {e \in 0..Len(s) : \A x \in (e + 1)..Len(s) : Char(s, x) \in C}
    IN  Slice(s, 1, CHOOSE e \in keep : \A y \in keep : e <= y)

Strip(s, C) == LStrip(RStrip(s, C), C)

\* str.split(sep) for a one-character separator: the list of the pieces.
RECURSIVE Split(_, _)
Split(s, sep) ==
    LET hits == {i \in 1..Len(s) : Char(s, i) = sep}
    IN  IF hits = {} THEN <<s>>
        ELSE LET i == CHOOSE h \in hits : \A y \in hits : h <= y
             IN  <<Slice(s, 1, i - 1)>> \o Split(Slice(s, i + 1, Len(s)), sep)

(***************************************************************************)
(* Dates.  A date is a number of days; the comparison of dateIsOld is on   *)
(* whole days, which is where its boundary lies.                           *)
(***************************************************************************)
currentDate == 20000

numOldYears == 3

\* dateIsOld with > for >=: C6 tells the two apart on a commit that is
\* exactly numOldYears * 365 days old.
dateIsOld_Strict(previousDate) == currentDate - previousDate > numOldYears * 365

dateIsOld(previousDate) == currentDate - previousDate >= numOldYears * 365

(***************************************************************************)
(* The patterns of the initial classification.  A match is a record whose  *)
(* field matched says whether the pattern matched, with the named groups.  *)
(***************************************************************************)
NoMatch == [matched |-> FALSE]

backoutRE == {"Revert", "Backed out", "Back out", "back out",
              "Backout", "backout", "BACKOUT", "Backing out"}

mergeRE == {"Merge", "merge"}

\* ^(?P<revision>[a-z0-9]+) (backoutRE|mergeRE)<space>
\* The revision is followed by a space, which is no revision character, so
\* the group is the longest run of revision characters.
backoutMergePattern(line) ==
    LET r == RunEnd(line, 1, RevisionChars)
    IN  IF /\ r >= 1
           /\ Char(line, r + 1) = " "
           /\ \E w \in backoutRE \cup mergeRE : StartsWith(line, r + 2, w \o " ")
        THEN [matched |-> TRUE, revision |-> Slice(line, 1, r)]
        ELSE NoMatch

\* ^(?P<revision>[a-z0-9]+)\s+(Fix for )?(Bug|bug) (?P<bugno>\d+)
\* Every group is greedy and is followed by a character outside its class,
\* so each is the longest run of its class; \d+ is followed by nothing and
\* takes every digit there is.
bugPattern(line) ==
    LET r  == RunEnd(line, 1, RevisionChars)
        w  == RunEnd(line, r + 1, WhitespaceChars)
        p  == IF StartsWith(line, w + 1, "Fix for ") THEN w + 9 ELSE w + 1
        d  == p + 4
        e  == RunEnd(line, d, DigitChars)
    IN  IF /\ r >= 1
           /\ w >= r + 1
           /\ (StartsWith(line, p, "Bug ") \/ StartsWith(line, p, "bug "))
           /\ e >= d
        THEN [matched |-> TRUE, revision |-> Slice(line, 1, r),
              bugno |-> Slice(line, d, e)]
        ELSE NoMatch

\* ^(?P<revision>[a-z0-9]+) (?P<summary>.*)$
unrecognizedPattern(line) ==
    LET r == RunEnd(line, 1, RevisionChars)
    IN  IF r >= 1 /\ Char(line, r + 1) = " "
        THEN [matched |-> TRUE, revision |-> Slice(line, 1, r),
              summary |-> Slice(line, r + 2, Len(line))]
        ELSE NoMatch

(***************************************************************************)
(* The reviewers of a summary line.                                        *)
(***************************************************************************)
\* ^(r=|sr=)?(?P<reviewer>[a-zA-Z0-9\-\.\_]+)$
\* "=" is no reviewer character, so a prefix that is there is always taken.
reviewerPattern(r) ==
    LET p == IF StartsWith(r, 1, "r=") THEN 3
             ELSE IF StartsWith(r, 1, "sr=") THEN 4 ELSE 1
    IN  IF p <= Len(r) /\ RunEnd(r, p, ReviewerChars) = Len(r)
        THEN [matched |-> TRUE, reviewer |-> Slice(r, p, Len(r))]
        ELSE NoMatch

webIDLPeersRE ==
    {"asuth", "baku", "bent", "bholley", "billm", "bkelly", "bz", "bzbarsky",
     "echen", "edgar", "ehsan", "emilio", "farre", "hsivonen", "jst", "khuey",
     "mccr8", "mounir", "mrbkap", "nika", "Nika", "peterv", "qdot", "saschanaz",
     "sefeng", "sicking", "smaug", "tschuster"}

\* ^(webIDLPeersRE)$
webIDLPeersPattern(r) == \E peer \in webIDLPeersRE : RegexLiteralMatch(peer, r)

\* One reviewer of the list, as the loop body of parseReviewers reads it: the
\* name it stands for, or "" when it does not parse (no name is empty).
reviewerName(entry) ==
    LET r == RStrip(Strip(entry, {" "}), {" ", ".", "]", ")"})
        m == reviewerPattern(r)
    IN  IF m.matched THEN m.reviewer
        ELSE IF r = "emilio DONTBUILD" THEN "emilio"
        ELSE ""

RECURSIVE parseReviewersFrom(_, _)
parseReviewersFrom(rs, i) ==
    IF i > Len(rs) THEN "MISSING"
    ELSE LET r == reviewerName(rs[i])
         IN  IF r = "" THEN "BAD_PARSE"
             ELSE IF webIDLPeersPattern(r) THEN "OK"
             ELSE parseReviewersFrom(rs, i + 1)

parseReviewers(rString) == parseReviewersFrom(Split(rString, ","), 1)

\* rEqualPattern.search(line), r"r\=(?P<reviewer>.*)$": the leftmost "r=", and
\* the rest of the line after it.
rEqualPattern(line) ==
    LET hits == {i \in 1..Len(line) : StartsWith(line, i, "r=")}
    IN  IF hits = {} THEN NoMatch
        ELSE LET i == CHOOSE h \in hits : \A y \in hits : h <= y
             IN  [matched |-> TRUE, reviewer |-> Slice(line, i + 2, Len(line))]

(***************************************************************************)
(* The author check.                                                       *)
(***************************************************************************)
webIDLPeersEmailRE == {"emilio@crisal.io", "sefeng@mozilla.com"}

\* ^(emilio@crisal.io|sefeng@mozilla.com)$ : the dots are not escaped.
webIDLPeersEmailPattern(author) ==
    \E pat \in webIDLPeersEmailRE : RegexLiteralMatch(pat, author)

(***************************************************************************)
(* The inputs: the log file and the answers of git.                        *)
(***************************************************************************)
\* Lines a log file is made of: one or more for each way through the three
\* loops, as the file holds them (before line.strip()).
LogLines ==
    {"a1 Bug 7 - x r=smaug",
     "a2\tFix for bug 7 r=foo, sr=Nika]",
     "a3 Bug 7 backout x r=emilio DONTBUILD",
     "a4 Bug 7 - x r=foo bar, bz",
     "a5 Bug 7 - x r=foo",
     "a7 Bug 1966190 - x r=foo",
     "a8 Bug 1979610 - x r=foo",
     "a9 Bug 1968400 - x",
     "b1 Bug 7 - x",
     "b2 Revert x",
     " b3 merge x ",
     "b5 Fix x",
     "b6",
     "Bug 7 - x r=bz",
     ""}

\* The commit dates git may answer: the youngest old one and the oldest
\* that is not old.
CommitDates == {currentDate - numOldYears * 365, currentDate - numOldYears * 365 + 1}

\* The committer emails git may answer.
AuthorEmails ==
    {"emilio@crisal.io", "sefeng@mozilla.com", "sefeng@mozillaxcom", "other@example.com"}

\* revisionDate(args.gitRepo, revision): git's answer, the same one for the
\* same revision throughout the run.
revisionDate(revision) ==
    LET known == {dateCalls[i].date : i \in {j \in 1..Len(dateCalls) : dateCalls[j].revision = revision}}
    IN  IF known = {} THEN CommitDates ELSE known

\* revisionAuthor(args.gitRepo, revision)
revisionAuthor(revision) ==
    LET known == {authorCalls[i].email : i \in {j \in 1..Len(authorCalls) : authorCalls[j].revision = revision}}
    IN  IF known = {} THEN AuthorEmails ELSE known

(***************************************************************************)
(* The state after the module-level initialisations.                       *)
(***************************************************************************)
Init ==
    /\ file \in UNION {[1..n -> LogLines] : n \in 0..MaxLines}
    /\ pc = "classify"
    /\ lineNo = 0 /\ bugIdx = 0 /\ missIdx = 0
    /\ bugs = <<>>
    /\ bugsMissingReview = <<>>
    /\ reviewers = ""
    /\ numReverts = 0 /\ numOldUnrecognized = 0
    /\ numHasPeer = 0 /\ numOldMissing = 0 /\ numOldReviewerless = 0
    /\ numOldUnparsableReviewers = 0 /\ numPeerAuthored = 0
    /\ numKnownMissing = 0 /\ numUnknownMissing = 0
    /\ dateCalls = <<>> /\ authorCalls = <<>>
    /\ stderr = <<>> /\ stdout = <<>>
    /\ exitStatus = 0

(***************************************************************************)
(* Pieces of the steps.                                                    *)
(***************************************************************************)
\* Count without the increment of numReverts: C9 tells the two apart on a
\* log with a backout line.
Count_NoReverts(counter) ==
    /\ numReverts' = numReverts
    /\ numOldUnrecognized' = numOldUnrecognized + (IF counter = "numOldUnrecognized" THEN 1 ELSE 0)
    /\ numHasPeer' = numHasPeer + (IF counter = "numHasPeer" THEN 1 ELSE 0)
    /\ numOldMissing' = numOldMissing + (IF counter = "numOldMissing" THEN 1 ELSE 0)
    /\ numOldReviewerless' = numOldReviewerless + (IF counter = "numOldReviewerless" THEN 1 ELSE 0)
    /\ numOldUnparsableReviewers' =
           numOldUnparsableReviewers + (IF counter = "numOldUnparsableReviewers" THEN 1 ELSE 0)
    /\ numPeerAuthored' = numPeerAuthored + (IF counter = "numPeerAuthored" THEN 1 ELSE 0)
    /\ numKnownMissing' = numKnownMissing + (IF counter = "numKnownMissing" THEN 1 ELSE 0)
    /\ numUnknownMissing' = numUnknownMissing + (IF counter = "numUnknownMissing" THEN 1 ELSE 0)

\* counter += 1 for the named counter; "" leaves every counter alone.
Count(counter) ==
    /\ numReverts' = numReverts + (IF counter = "numReverts" THEN 1 ELSE 0)
    /\ numOldUnrecognized' = numOldUnrecognized + (IF counter = "numOldUnrecognized" THEN 1 ELSE 0)
    /\ numHasPeer' = numHasPeer + (IF counter = "numHasPeer" THEN 1 ELSE 0)
    /\ numOldMissing' = numOldMissing + (IF counter = "numOldMissing" THEN 1 ELSE 0)
    /\ numOldReviewerless' = numOldReviewerless + (IF counter = "numOldReviewerless" THEN 1 ELSE 0)
    /\ numOldUnparsableReviewers' =
           numOldUnparsableReviewers + (IF counter = "numOldUnparsableReviewers" THEN 1 ELSE 0)
    /\ numPeerAuthored' = numPeerAuthored + (IF counter = "numPeerAuthored" THEN 1 ELSE 0)
    /\ numKnownMissing' = numKnownMissing + (IF counter = "numKnownMissing" THEN 1 ELSE 0)
    /\ numUnknownMissing' = numUnknownMissing + (IF counter = "numUnknownMissing" THEN 1 ELSE 0)

\* continue: the loop goes on to its next element, nothing is written.
Continue == UNCHANGED <<pc, exitStatus, stderr, stdout>>

\* Fail without the exit(-1): the message is written and the loop goes on.
\* C3 tells the two apart.
Fail_NoExit(message) ==
    /\ stderr' = Append(stderr, message)
    /\ UNCHANGED <<pc, exitStatus, stdout>>

\* sys.stderr.write(message); exit(-1): the status is the low byte of -1.
Fail(message) ==
    /\ stderr' = Append(stderr, message)
    /\ pc' = "exited"
    /\ exitStatus' = (-1) % 256
    /\ UNCHANGED stdout

\* An exception nobody catches: the interpreter writes the traceback and
\* the process ends with status 1.
Raise(exception) ==
    /\ stderr' = Append(stderr, "Traceback (most recent call last): " \o exception \o "\n")
    /\ pc' = "exited"
    /\ exitStatus' = 1
    /\ UNCHANGED stdout

\* dateIsOld(revisionDate(args.gitRepo, revision)), with the call recorded.
LookupDate(revision, date) ==
    /\ date \in revisionDate(revision)
    /\ dateCalls' = Append(dateCalls, [revision |-> revision, date |-> date])

(***************************************************************************)
(* First loop: the initial classification of the summary lines.            *)
(***************************************************************************)
\* classify with the generic pattern tried before the backout/merge pattern:
\* C5 tells the two apart on a backout line.
classify_GenericFirst(line) ==
    IF bugPattern(line).matched THEN "bug"
    ELSE IF unrecognizedPattern(line).matched THEN "unrecognized"
    ELSE IF backoutMergePattern(line).matched THEN "backoutMerge"
    ELSE "hashless"

\* Which branch of the loop body takes the line: the patterns in the order
\* the body tries them.
classify(line) ==
    IF bugPattern(line).matched THEN "bug"
    ELSE IF backoutMergePattern(line).matched THEN "backoutMerge"
    ELSE IF unrecognizedPattern(line).matched THEN "unrecognized"
    ELSE "hashless"

\* for line in f: there is a next line.
InClassifyLoop == pc = "classify" /\ lineNo < Len(file)

ClassifyLine ==
    /\ InClassifyLoop
    /\ lineNo' = lineNo + 1
    /\ UNCHANGED <<file, bugIdx, missIdx, bugsMissingReview, reviewers, authorCalls>>
    /\ LET line  == Strip(file[lineNo + 1], WhitespaceChars)
           class == classify(line)
       IN  IF class = "bug" THEN
               /\ bugs' = Append(bugs, <<bugPattern(line).revision, bugPattern(line).bugno, line>>)
               /\ Count("")
               /\ Continue
               /\ UNCHANGED dateCalls
           ELSE IF class = "backoutMerge" THEN
               /\ Count("numReverts")
               /\ Continue
               /\ UNCHANGED <<bugs, dateCalls>>
           ELSE IF class = "unrecognized" THEN
               \E date \in CommitDates :
                   /\ LookupDate(unrecognizedPattern(line).revision, date)
                   /\ UNCHANGED bugs
                   /\ IF dateIsOld(date)
                      THEN Count("numOldUnrecognized") /\ Continue
                      ELSE /\ Count("")
                           /\ Fail("Error: non-old unrecognized line: "
                                   \o unrecognizedPattern(line).summary \o "\n")
           ELSE
               \* match is None here, so match.group("summary") raises
               \* before anything is written.
               /\ Count("")
               /\ Raise("AttributeError: 'NoneType' object has no attribute 'group'")
               /\ UNCHANGED <<bugs, dateCalls>>

\* The end of the file: the second loop starts.
EndClassify ==
    /\ pc = "classify"
    /\ lineNo = Len(file)
    /\ pc' = "review"
    /\ UNCHANGED <<file, lineNo, bugIdx, missIdx, bugs, bugsMissingReview, reviewers,
                   counters, dateCalls, authorCalls, stderr, stdout, exitStatus>>

(***************************************************************************)
(* Second loop: the reviewers of every bug line.                           *)
(***************************************************************************)
\* The reviewer check run on each bug line as soon as it is classified,
\* within the first loop: C10 tells the two apart.
InReviewLoop_Streaming == pc \in {"classify", "review"} /\ bugIdx < Len(bugs)

\* for (revision, bugnumber, line) in bugs: there is a next entry.
InReviewLoop == pc = "review" /\ bugIdx < Len(bugs)

ReviewBug ==
    /\ InReviewLoop
    /\ bugIdx' = bugIdx + 1
    /\ UNCHANGED <<file, lineNo, missIdx, bugs, authorCalls>>
    /\ LET revision  == bugs[bugIdx + 1][1]
           bugnumber == bugs[bugIdx + 1][2]
           line      == bugs[bugIdx + 1][3]
           match     == rEqualPattern(line)
       IN  IF match.matched THEN
               /\ reviewers' = parseReviewers(match.reviewer)
               /\ IF reviewers' = "OK" THEN
                      /\ Count("numHasPeer")
                      /\ Continue
                      /\ UNCHANGED <<bugsMissingReview, dateCalls>>
                  ELSE IF reviewers' = "BAD_PARSE" THEN
                      \E date \in CommitDates :
                          /\ LookupDate(revision, date)
                          /\ UNCHANGED bugsMissingReview
                          /\ IF dateIsOld(date)
                             THEN Count("numOldUnparsableReviewers") /\ Continue
                             ELSE /\ Count("")
                                  /\ Fail("Error: couldn't parse reviewers for non-old bug: "
                                          \o line \o "\n")
                  ELSE IF reviewers' = "MISSING" THEN
                      \E date \in CommitDates :
                          /\ LookupDate(revision, date)
                          /\ Continue
                          /\ IF dateIsOld(date)
                             THEN Count("numOldMissing") /\ UNCHANGED bugsMissingReview
                             ELSE /\ Count("")
                                  /\ bugsMissingReview' =
                                         Append(bugsMissingReview, <<revision, bugnumber, line>>)
                  ELSE
                      /\ Count("")
                      /\ Fail("Error: unexpected parseReviewers return value "
                              \o reviewers' \o ": " \o line \o "\n")
                      /\ UNCHANGED <<bugsMissingReview, dateCalls>>
           ELSE
               \E date \in CommitDates :
                   /\ LookupDate(revision, date)
                   /\ UNCHANGED <<reviewers, bugsMissingReview>>
                   /\ IF dateIsOld(date) THEN
                          Count("numOldReviewerless") /\ Continue
                      ELSE IF bugnumber = "1968400" THEN
                          Count("numPeerAuthored") /\ Continue
                      ELSE
                          /\ Count("")
                          /\ Fail("Error: non-old bug without reviewer string: " \o line \o "\n")

\* The end of the second loop: bugs = [], and the third loop starts.
EndReview ==
    /\ pc = "review"
    /\ bugIdx = Len(bugs)
    /\ bugs' = <<>>
    /\ bugIdx' = 0
    /\ pc' = "author"
    /\ UNCHANGED <<file, lineNo, missIdx, bugsMissingReview, reviewers, counters,
                   dateCalls, authorCalls, stderr, stdout, exitStatus>>

(***************************************************************************)
(* Third loop: the authors of the patches no peer reviewed.                *)
(***************************************************************************)
\* for (revision, bugnumber, line) in bugsMissingReview: there is a next entry.
InAuthorLoop == pc = "author" /\ missIdx < Len(bugsMissingReview)

CheckAuthor ==
    /\ InAuthorLoop
    /\ missIdx' = missIdx + 1
    /\ UNCHANGED <<file, lineNo, bugIdx, bugs, bugsMissingReview, reviewers, dateCalls,
                   pc, exitStatus, stdout>>
    /\ LET revision  == bugsMissingReview[missIdx + 1][1]
           bugnumber == bugsMissingReview[missIdx + 1][2]
           line      == bugsMissingReview[missIdx + 1][3]
       IN  \E author \in revisionAuthor(revision) :
               /\ authorCalls' = Append(authorCalls, [revision |-> revision, email |-> author])
               /\ IF webIDLPeersEmailPattern(author) THEN
                      Count("numPeerAuthored") /\ UNCHANGED stderr
                  ELSE IF bugnumber = "1966190" THEN
                      Count("numKnownMissing") /\ UNCHANGED stderr
                  ELSE IF bugnumber = "1979610" THEN
                      Count("numKnownMissing") /\ UNCHANGED stderr
                  ELSE
                      /\ Count("numUnknownMissing")
                      /\ stderr' = Append(stderr, "MISSING WebIDL review for bug "
                                                  \o bugnumber \o ": " \o line)

(***************************************************************************)
(* The verdict and the report.                                             *)
(***************************************************************************)
Summary ==
    << <<"Patches with WebIDL peer review: ", numHasPeer>>,
       <<"Patches missing WebIDL peer review, known issue: ", numKnownMissing>>,
       <<"Patches missing WebIDL peer review, but authored by peer: ", numPeerAuthored>>,
       <<"Old patches missing WebIDL peer review: ", numOldMissing>>,
       <<"Old patches without parsable reviewer strings: ", numOldUnparsableReviewers>>,
       <<"Old patches without reviewer strings: ", numOldReviewerless>>,
       <<>>,
       <<"Patches that are backouts: ", numReverts>>,
       <<"Old unrecognized summaries: ", numOldUnrecognized>>,
       <<>>,
       <<"(Old means more than ", numOldYears, " years old.)">> >>

Report ==
    /\ pc = "author"
    /\ missIdx = Len(bugsMissingReview)
    /\ UNCHANGED <<file, lineNo, bugIdx, missIdx, bugs, bugsMissingReview, reviewers,
                   counters, dateCalls, authorCalls>>
    /\ IF numUnknownMissing > 0
       THEN Fail("!!! Unknown non-old patches missing WebIDL review !!!")
       ELSE /\ stdout' = Summary
            /\ pc' = "exited"
            /\ exitStatus' = 0
            /\ UNCHANGED stderr

Next ==
    \/ ClassifyLine
    \/ EndClassify
    \/ ReviewBug
    \/ EndReview
    \/ CheckAuthor
    \/ Report

Spec == Init /\ [][Next]_vars

(***************************************************************************)
(* The vocabulary of the properties.  What a property says about dates and *)
(* emails is stated here on its own terms, not through the operators of    *)
(* the script.                                                             *)
(***************************************************************************)
\* The k-th line of the file, as the first loop sees it.
TheLine(k) == Strip(file[k], WhitespaceChars)

\* The line starts with a revision hash followed by a space.
HasRevision(line) ==
    LET r == RunEnd(line, 1, RevisionChars)
    IN  r >= 1 /\ Char(line, r + 1) = " "

\* A commit of that date is old.
Old(date) == currentDate - date >= numOldYears * 365

DatesOf(revision) ==
    {dateCalls[i].date : i \in {j \in 1..Len(dateCalls) : dateCalls[j].revision = revision}}

EmailsOf(revision) ==
    {authorCalls[i].email : i \in {j \in 1..Len(authorCalls) : authorCalls[j].revision = revision}}

\* git was asked for the date of the revision, and the commit is (not) old.
KnownOld(revision) == \E d \in DatesOf(revision) : Old(d)

KnownNotOld(revision) == \E d \in DatesOf(revision) : ~Old(d)

Succeeded == pc = "exited" /\ exitStatus = 0 /\ stdout # <<>>

Failed == pc = "exited" /\ exitStatus # 0

IsErrorMessage(m) == StartsWith(m, 1, "Error:")

IsReviewerError(m) ==
    \/ StartsWith(m, 1, "Error: couldn't parse reviewers")
    \/ StartsWith(m, 1, "Error: non-old bug without reviewer string")
    \/ StartsWith(m, 1, "Error: unexpected parseReviewers return value")

IsMissingMessage(m) == StartsWith(m, 1, "MISSING WebIDL review for bug ")

LastMessage == IF stderr = <<>> THEN "" ELSE stderr[Len(stderr)]

\* The reviewer entry names a peer, once stripped of spaces, of trailing
\* " .])" and of an r= or sr= prefix.
IsPeerEntry(entry) ==
    LET m == reviewerPattern(RStrip(Strip(entry, {" "}), {" ", ".", "]", ")"}))
    IN  m.matched /\ m.reviewer \in webIDLPeersRE

\* The reviewer entry parses.
EntryParses(entry) == reviewerName(entry) # ""

Entries(rString) == {Split(rString, ",")[i] : i \in 1..Len(Split(rString, ","))}

\* The verdict of the author check has been given.
VerdictGiven ==
    pc = "exited" /\ (stdout # <<>> \/ StartsWith(LastMessage, 1, "!!!"))

SumOfCounters ==
    numHasPeer + numKnownMissing + numPeerAuthored + numOldMissing
    + numOldUnparsableReviewers + numOldReviewerless + numReverts
    + numOldUnrecognized + numUnknownMissing

(***************************************************************************)
(* C1.  Soundness of a successful audit: when the run ends with the        *)
(* summary report, every bug-fix line of the file either has a reviewer    *)
(* list that yielded a peer, or its commit is old, or its commit email is  *)
(* one of the two allow-listed emails, or its bug number is 1968400,       *)
(* 1966190 or 1979610.                                                     *)
(***************************************************************************)
C1_SuccessIsSound ==
    Succeeded =>
        \A k \in 1..Len(file) :
            LET m == bugPattern(TheLine(k))
                r == rEqualPattern(TheLine(k))
            IN  m.matched =>
                    \/ r.matched /\ parseReviewers(r.reviewer) = "OK"
                    \/ KnownOld(m.revision)
                    \/ \E e \in EmailsOf(m.revision) : e \in webIDLPeersEmailRE
                    \/ m.bugno \in {"1968400", "1966190", "1979610"}

(***************************************************************************)
(* C2.  Every unresolved violation is reported: each entry of              *)
(* bugsMissingReview the third loop has taken that is neither authored by  *)
(* a peer (its commit email is one of the two allow-listed emails) nor     *)
(* bug 1966190 or 1979610 has its MISSING message on the error stream and  *)
(* is counted in numUnknownMissing; the verdict is given only when the     *)
(* whole list has been taken, and it is a failure exactly when             *)
(* numUnknownMissing > 0.                                                  *)
(***************************************************************************)
C2_EveryViolationReported ==
    LET Unresolved ==
            {j \in 1..missIdx :
                /\ authorCalls[j].email \notin webIDLPeersEmailRE
                /\ bugsMissingReview[j][2] \notin {"1966190", "1979610"}}
        Reported == {i \in 1..Len(stderr) : IsMissingMessage(stderr[i])}
    IN  /\ \A j \in Unresolved :
               \E i \in Reported :
                   stderr[i] = "MISSING WebIDL review for bug " \o bugsMissingReview[j][2]
                               \o ": " \o bugsMissingReview[j][3]
        /\ Cardinality(Reported) = Cardinality(Unresolved)
        /\ numUnknownMissing = Cardinality(Unresolved)
        /\ VerdictGiven =>
               /\ missIdx = Len(bugsMissingReview)
               /\ (exitStatus # 0) <=> (numUnknownMissing > 0)

(***************************************************************************)
(* C3.  Fail-fast: a line with a revision hash that matches neither the    *)
(* bug pattern nor the backout/merge pattern and whose commit is not old,  *)
(* a non-old bug line whose reviewer list does not parse, and a non-old    *)
(* bug line without "r=" whose bug number is not 1968400 each end the run  *)
(* at that line: the last thing on the error stream is an "Error:"         *)
(* message, the exit status is not zero, no later line of the loop is      *)
(* taken, the next loop never starts and the summary is never printed.     *)
(***************************************************************************)
C3_FailFast ==
    /\ \A k \in 1..lineNo :
           LET line == TheLine(k)
           IN  ( /\ unrecognizedPattern(line).matched
                 /\ ~bugPattern(line).matched
                 /\ ~backoutMergePattern(line).matched
                 /\ KnownNotOld(unrecognizedPattern(line).revision) )
               => /\ lineNo = k
                  /\ Failed
                  /\ IsErrorMessage(LastMessage)
                  /\ stdout = <<>>
                  /\ bugIdx = 0 /\ missIdx = 0
    /\ \A k \in 1..bugIdx :
           LET revision  == bugs[k][1]
               bugnumber == bugs[k][2]
               r         == rEqualPattern(bugs[k][3])
           IN  ( /\ KnownNotOld(revision)
                 /\ \/ r.matched /\ parseReviewers(r.reviewer) = "BAD_PARSE"
                    \/ ~r.matched /\ bugnumber # "1968400" )
               => /\ bugIdx = k
                  /\ Failed
                  /\ IsErrorMessage(LastMessage)
                  /\ stdout = <<>>
                  /\ missIdx = 0 /\ authorCalls = <<>>

\* The run failed at the first of two bug lines: the second was never taken.
C3_Witness ==
    /\ Failed
    /\ Len(bugs) = 2 /\ bugIdx = 1
    /\ IsReviewerError(LastMessage)

(***************************************************************************)
(* C4.  A line that matches none of the three patterns makes the program   *)
(* write "Error: hashless line: <summary>" to the error stream and exit    *)
(* with a nonzero status.                                                  *)
(***************************************************************************)
C4_HashlessMessage ==
    \A k \in 1..lineNo :
        LET line == TheLine(k)
        IN  ( /\ ~bugPattern(line).matched
              /\ ~backoutMergePattern(line).matched
              /\ ~unrecognizedPattern(line).matched )
            => /\ Failed
               /\ StartsWith(LastMessage, 1, "Error: hashless line: ")

(***************************************************************************)
(* C5.  Classification is total, exclusive and prioritised: a step of the  *)
(* first loop ends in exactly one of four ways, decided by the bug         *)
(* pattern first, then the backout/merge pattern, then the generic         *)
(* pattern: the line joins bugs; or only numReverts grows; or only         *)
(* numOldUnrecognized grows; or the run fails.  A backout/merge line is    *)
(* never looked up in git, never fails the run, and never reaches the      *)
(* later loops, which see bug lines only.                                  *)
(***************************************************************************)
C5_Step ==
    LET line      == Strip(file[lineNo + 1], WhitespaceChars)
        isBug     == bugPattern(line).matched
        isBackout == backoutMergePattern(line).matched
        quiet     == /\ pc' = pc /\ stderr' = stderr /\ stdout' = stdout
                     /\ authorCalls' = authorCalls
                     /\ bugsMissingReview' = bugsMissingReview
        asBug     == /\ isBug
                     /\ bugs' = Append(bugs, <<bugPattern(line).revision,
                                                bugPattern(line).bugno, line>>)
                     /\ counters' = counters
                     /\ dateCalls' = dateCalls
                     /\ quiet
        asBackout == /\ counters' = [counters EXCEPT ![1] = @ + 1]
                     /\ bugs' = bugs
                     /\ dateCalls' = dateCalls
                     /\ quiet
        asOld     == /\ counters' = [counters EXCEPT ![2] = @ + 1]
                     /\ bugs' = bugs
                     /\ quiet
        asError   == /\ pc' = "exited" /\ exitStatus' # 0
                     /\ Len(stderr') = Len(stderr) + 1
                     /\ counters' = counters
                     /\ bugs' = bugs
    IN  /\ (lineNo' = lineNo + 1) =>
               /\ Cardinality({o \in {"bug", "backout", "old", "error"} :
                      \/ o = "bug" /\ asBug
                      \/ o = "backout" /\ asBackout
                      \/ o = "old" /\ asOld
                      \/ o = "error" /\ asError}) = 1
               /\ isBug => asBug
               /\ (~isBug /\ isBackout) => asBackout
               /\ (~isBug /\ ~isBackout) => (asOld \/ asError)
        /\ \A j \in 1..Len(bugs') : bugPattern(bugs'[j][3]).matched
        /\ \A j \in 1..Len(bugsMissingReview') : bugPattern(bugsMissingReview'[j][3]).matched

C5_Classification == [][C5_Step]_vars

\* A bug line that mentions a backout went to bugs, a backout line to numReverts.
C5_Witness ==
    /\ lineNo = 2
    /\ Len(bugs) = 1 /\ bugs[1][3] = "a3 Bug 7 backout x r=emilio DONTBUILD"
    /\ numReverts = 1

(***************************************************************************)
(* C6.  Date-based exemption: a step that learns from git that the commit  *)
(* of its line is old never ends the run, never appends to                 *)
(* bugsMissingReview, never looks up an author, and adds one to exactly    *)
(* one "old" counter; the run fails in the first two loops only on a line  *)
(* without a revision hash or on a commit that is not old; entries of      *)
(* bugsMissingReview and author lookups are of commits that are not old.   *)
(* Consequently a log in which every line starts with a revision hash and  *)
(* a space and every commit looked up is old never fails, and when it      *)
(* succeeds each line is counted in numHasPeer, numOldMissing,             *)
(* numOldUnparsableReviewers, numOldReviewerless, numReverts or            *)
(* numOldUnrecognized.                                                     *)
(***************************************************************************)
C6_AllOld ==
    ( /\ \A k \in 1..Len(file) : HasRevision(TheLine(k))
      /\ \A i \in 1..Len(dateCalls) : Old(dateCalls[i].date) )
    => /\ ~Failed
       /\ bugsMissingReview = <<>> /\ authorCalls = <<>>
       /\ Succeeded =>
              numHasPeer + numOldMissing + numOldUnparsableReviewers
              + numOldReviewerless + numReverts + numOldUnrecognized = Len(file)

C6_Step ==
    LET looked == dateCalls' # dateCalls
        date   == dateCalls'[Len(dateCalls')].date
    IN  /\ (looked /\ Old(date)) =>
               /\ pc' = pc
               /\ stderr' = stderr
               /\ bugsMissingReview' = bugsMissingReview
               /\ authorCalls' = authorCalls
               /\ \E c \in {2, 4, 5, 6} : counters' = [counters EXCEPT ![c] = @ + 1]
        /\ (bugsMissingReview' # bugsMissingReview) => (looked /\ ~Old(date))
        /\ (authorCalls' # authorCalls) =>
               LET revision == authorCalls'[Len(authorCalls')].revision
               IN  KnownNotOld(revision) /\ ~KnownOld(revision)
        /\ (pc \in {"classify", "review"} /\ pc' = "exited") =>
               \/ looked /\ ~Old(date)
               \/ pc = "classify" /\ ~HasRevision(Strip(file[lineNo + 1], WhitespaceChars))

C6_DateExemption == [][C6_Step]_vars /\ []C6_AllOld

\* A log of two old commits, one bug line without peer review and one
\* unrecognized line, ended in success.
C6_Witness ==
    /\ Succeeded
    /\ Len(file) = 2
    /\ numOldMissing = 1 /\ numOldUnrecognized = 1

(***************************************************************************)
(* C7.  The author check, in this order: an entry of bugsMissingReview     *)
(* whose commit email is exactly one of the two allow-listed addresses is  *)
(* counted in numPeerAuthored; otherwise, if its bug number is 1966190 or  *)
(* 1979610, in numKnownMissing; otherwise in numUnknownMissing.  Only bug  *)
(* lines that are not old, have an "r=" string and whose reviewer list     *)
(* parsed with no peer are entries.                                        *)
(***************************************************************************)
C7_AuthorCheckOrder ==
    LET Taken   == 1..missIdx
        Peer    == {j \in Taken : authorCalls[j].email \in webIDLPeersEmailRE}
        Known   == {j \in Taken \ Peer : bugsMissingReview[j][2] \in {"1966190", "1979610"}}
        Unknown == Taken \ (Peer \cup Known)
    IN  /\ numKnownMissing = Cardinality(Known)
        /\ numUnknownMissing = Cardinality(Unknown)
        /\ numPeerAuthored >= Cardinality(Peer)
        /\ \A j \in 1..Len(bugsMissingReview) :
               LET r == rEqualPattern(bugsMissingReview[j][3])
               IN  /\ KnownNotOld(bugsMissingReview[j][1])
                   /\ r.matched
                   /\ parseReviewers(r.reviewer) = "MISSING"

(***************************************************************************)
(* C8.  parseReviewers: when at least one entry of the comma-separated     *)
(* reviewer string names a peer the result is "OK" and the line is counted *)
(* in numHasPeer, wherever the peer stands in the list and whatever the    *)
(* other entries are; "MISSING" is returned only when every entry parses   *)
(* and none is a peer; "BAD_PARSE" only when no entry is a peer and some   *)
(* entry does not parse.  Stated of the bug line the second loop took      *)
(* last.                                                                   *)
(***************************************************************************)
C8_AnyPeerIsOK ==
    (bugIdx >= 1 /\ rEqualPattern(bugs[bugIdx][3]).matched) =>
        LET es == Entries(rEqualPattern(bugs[bugIdx][3]).reviewer)
        IN  /\ (\E e \in es : IsPeerEntry(e)) => (reviewers = "OK" /\ numHasPeer >= 1)
            /\ reviewers = "MISSING" =>
                   (\A e \in es : EntryParses(e) /\ ~IsPeerEntry(e))
            /\ reviewers = "BAD_PARSE" =>
                   ((\A e \in es : ~IsPeerEntry(e)) /\ (\E e \in es : ~EntryParses(e)))

(***************************************************************************)
(* C9.  Counter conservation: in every state the sum of all the counters   *)
(* plus the entries of bugs and bugsMissingReview not yet taken by their   *)
(* loops does not exceed the number of lines read; when the summary is     *)
(* printed the eight counters of the report add up to the number of lines  *)
(* of the file and numUnknownMissing is 0.                                 *)
(***************************************************************************)
C9_CounterConservation ==
    /\ SumOfCounters + (Len(bugs) - bugIdx) + (Len(bugsMissingReview) - missIdx) <= lineNo
    /\ Succeeded =>
           /\ numUnknownMissing = 0
           /\ numHasPeer + numKnownMissing + numPeerAuthored + numOldMissing
              + numOldUnparsableReviewers + numOldReviewerless + numReverts
              + numOldUnrecognized = Len(file)

\* A report over two lines, one counted by the second loop and one by the third.
C9_Witness ==
    /\ Succeeded
    /\ Len(file) = 2
    /\ numReverts = 1 /\ numKnownMissing = 1

(***************************************************************************)
(* C10.  Strict phase ordering: nothing of the reviewer check happens      *)
(* before every line of the file is classified, and no author lookup and   *)
(* no MISSING message happens before every bug line has passed the         *)
(* reviewer check.  A run with an "Error:" message has no MISSING message, *)
(* and a run with a reviewer-related error has no unrecognized line whose  *)
(* commit is not old.                                                      *)
(***************************************************************************)
C10_PhaseOrdering ==
    LET BugLines == {k \in 1..Len(file) : bugPattern(TheLine(k)).matched}
        reviewStarted ==
            \/ bugIdx > 0 \/ reviewers # "" \/ bugsMissingReview # <<>>
            \/ numHasPeer + numOldMissing + numOldReviewerless
               + numOldUnparsableReviewers + numPeerAuthored > 0
            \/ \E i \in 1..Len(stderr) : IsReviewerError(stderr[i])
        authorStarted ==
            \/ authorCalls # <<>> \/ missIdx > 0
            \/ numKnownMissing + numUnknownMissing > 0
            \/ \E i \in 1..Len(stderr) : IsMissingMessage(stderr[i])
    IN  /\ reviewStarted =>
               /\ lineNo = Len(file)
               /\ \A k \in 1..Len(file) :
                      unrecognizedPattern(TheLine(k)).matched =>
                          \/ bugPattern(TheLine(k)).matched
                          \/ backoutMergePattern(TheLine(k)).matched
                          \/ KnownOld(unrecognizedPattern(TheLine(k)).revision)
        /\ authorStarted =>
               /\ lineNo = Len(file)
               /\ numHasPeer + numOldMissing + numOldReviewerless
                  + numOldUnparsableReviewers + numPeerAuthored + numKnownMissing
                  + numUnknownMissing + (Len(bugsMissingReview) - missIdx)
                  = Cardinality(BugLines)
               /\ \A i \in 1..Len(stderr) : ~IsErrorMessage(stderr[i])
        /\ (\E i \in 1..Len(stderr) : IsErrorMessage(stderr[i])) =>
               (\A i \in 1..Len(stderr) : ~IsMissingMessage(stderr[i]))

\* The run failed in the reviewer check on its second bug line, after an
\* unreviewed, non-old bug fix: nothing is reported missing.
C10_Witness ==
    /\ Failed
    /\ bugIdx = 2
    /\ Len(bugsMissingReview) = 1
    /\ IsReviewerError(LastMessage)
    /\ authorCalls = <<>>

====
